---- MODULE Spec2Model ----
(***************************************************************************)
(* Model of the chat client's renderer (renderer.js): the response         *)
(* classifier handleBackendResponse, the message renderer addMessage /     *)
(* updateMessageContent, the chat send flow, the selected-image slot, and  *)
(* the server list controller with its refresh timer.                      *)
(*                                                                         *)
(* Strings are sequences of tokens.  A token is one character, except that *)
(* a literal the code tests with startsWith is a single token              *)
(* ("TOOL_CALL_START:", "TOOL_CALL_END:", "Error:") and a fixed message of *)
(* the program is a single token.                                          *)
(***************************************************************************)
EXTENDS Integers, Sequences, FiniteSets, TLC

START == "TOOL_CALL_START:"
END == "TOOL_CALL_END:"
ERR == "Error:"
NL == "\n"
SP == " "
null == 0

(* ---------------------------------------------------------------- bounds *)
MaxLen == 5
MaxSends == 2
MaxSelections == 2
MaxUnconnected == 1
MaxOps == 2
MaxEntries == 3
MaxSettingsOps == 3
MaxInFlight == 2
MaxStatusLen == 6
MaxQuits == 2

VARIABLES
  pythonPort,          \* renderer.js: let pythonPort
  messageInput,        \* messageInput.value
  selectedImageData,   \* renderer.js: let selectedImageData
  readers,             \* FileReaders whose readAsDataURL has not completed
  selections,          \* number of image selections made so far
  chatMessages,        \* the #chat-messages container
  sends,               \* the sendMessage invocations: locals and position
  initFlow,            \* position of initializeApp
  backendReply,        \* the reply string the backend is composing for send 1
  emitted,             \* lines of backendReply emitted so far
  knownBody,           \* the reply body the backend has emitted so far
  bodyLines,           \* number of body lines emitted
  nStart,              \* number of start events emitted
  nEnd,                \* number of end events emitted
  serverRefreshInterval, \* renderer.js: let serverRefreshInterval (0 is null)
  timers,              \* interval handles created by setInterval and not cleared
  timerCount,          \* number of setInterval calls so far
  refreshes,           \* GET /servers requests in flight
  refreshCount,        \* number of GET /servers requests issued so far
  serverList,          \* the rendered #server-list
  addFlow,             \* the add-server click handler: locals and position
  delFlow,             \* deleteServer: locals and position
  backendUp,           \* whether the backend is reachable
  ops,                 \* timer callbacks, add clicks and delete clicks so far
  hist,                \* history of the server list controller, for the properties
  imagePreview,        \* whether imagePreviewContainer is displayed
  chatHist,            \* history of the composer, for the properties
  settings,            \* the settings panel of the renderer and its calls in flight
  host,                \* main.js: currentBackend and what the backend was told
  monitor,             \* main.js: monitorBackendStartup and the startup state
  app                  \* main.js: isQuitting, pythonProcess and the before-quit handler

chatVars == <<messageInput, selectedImageData, readers, selections, sends>>
replyVars == <<backendReply, emitted, knownBody, bodyLines, nStart, nEnd>>
serverVars == <<serverRefreshInterval, timers, timerCount, refreshes, refreshCount,
                serverList, addFlow, delFlow, backendUp, ops, hist>>
hostVars == <<settings, host, monitor, app>>
vars == <<pythonPort, chatMessages, initFlow, chatVars, replyVars, serverVars,
          imagePreview, chatHist, hostVars>>

(* ------------------------------------------------------- string helpers *)
TAB == "\t"
IsSpace(c) == c \in {SP, NL, TAB}

RECURSIVE trimStart(_)
trimStart(s) ==
  IF s # <<>> /\ IsSpace(Head(s)) THEN trimStart(Tail(s)) ELSE s

RECURSIVE trimEnd(_)
trimEnd(s) ==
  IF s # <<>> /\ IsSpace(s[Len(s)]) THEN trimEnd(SubSeq(s, 1, Len(s) - 1)) ELSE s

trim_None(s) == s

trim(s) == trimEnd(trimStart(s))

startsWith(s, tok) == Len(s) > 0 /\ s[1] = tok

RECURSIVE split(_)
split(text) ==
  IF \A i \in 1..Len(text) : text[i] # NL
    THEN <<text>>
    ELSE LET k == CHOOSE i \in 1..Len(text) :
                    text[i] = NL /\ \A j \in 1..(i - 1) : text[j] # NL
         IN  <<SubSeq(text, 1, k - 1)>> \o split(SubSeq(text, k + 1, Len(text)))

RECURSIVE join(_)
join(lines) ==
  IF lines = <<>> THEN <<>>
  ELSE IF Len(lines) = 1 THEN lines[1]
  ELSE lines[1] \o <<NL>> \o join(Tail(lines))

(* ------------------------------------------------------------- the DOM  *)
(* chatMessages is the #chat-messages container: its children in document *)
(* order and the number of elements created so far (an element's identity *)
(* is its creation number).                                               *)

isToolStatusText(text) == startsWith(text, START) \/ startsWith(text, END)

(* DOMTokenList.add throws InvalidCharacterError for a token that holds   *)
(* whitespace: the class names the code passes with a space in them.      *)
hasWhitespace(sender) == sender \in {"system error", "system tool-status"}

(* classList after addMessage's classList.add("message", sender) and its  *)
(* tool-status rewrite (remove 'ai','user','system'; add both classes).   *)
classesAfterAdd(text, sender) ==
  IF isToolStatusText(text)
    THEN {"message", "system", "tool-status"} \cup ({sender} \ {"ai", "user", "system"})
    ELSE {"message", sender}

(* classList after updateMessageContent's className reset, add and rewrite *)
classesAfterUpdate(text, senderClass) ==
  IF isToolStatusText(text)
    THEN {"message", "system", "tool-status"}
           \cup ({senderClass} \ {"ai", "user", "system", "ai-loading"})
    ELSE {"message", senderClass}

(* ---- the summary line of a system or tool-status message ---- *)
STATUS == "status="

(* the characters of a token that stands for a literal of several *)
chars(tok) == IF tok = ERR THEN <<"E", "r", "r", "o", "r", ":">> ELSE <<tok>>

RECURSIVE expand(_)
expand(s) == IF s = <<>> THEN <<>> ELSE chars(Head(s)) \o expand(Tail(s))

lowerChar(c) ==
  CASE c = "E" -> "e"
    [] c = "R" -> "r"
    [] c = "O" -> "o"
    [] OTHER -> c

toLowerCase_None(s) == s

toLowerCase(s) == [k \in 1..Len(s) |-> lowerChar(s[k])]

startsWithError(s) ==
  Len(s) >= 5 /\ SubSeq(s, 1, 5) = <<"e", "r", "r", "o", "r">>

(* text.substring(sentinel.length).trim() *)
toolStatusDetails(text) == trim(Tail(text))

(* toolStatusDetails.split('status=')[1] || '' *)
statusPart(details) ==
  IF \A k \in 1..Len(details) : details[k] # STATUS
    THEN <<>>
    ELSE LET first == CHOOSE k \in 1..Len(details) :
                        details[k] = STATUS /\ \A j \in 1..(k - 1) : details[j] # STATUS
             rest == SubSeq(details, first + 1, Len(details))
         IN  IF \A k \in 1..Len(rest) : rest[k] # STATUS
               THEN rest
               ELSE SubSeq(rest, 1,
                           (CHOOSE k \in 1..Len(rest) :
                              rest[k] = STATUS /\ \A j \in 1..(k - 1) : rest[j] # STATUS) - 1)

isError(details) == startsWithError(toLowerCase(expand(statusPart(details))))

UNKNOWNTOOL == <<"Unknown Tool">>

(* toolStatusDetails.split(' ')[0] || 'Unknown Tool' *)
toolName(details) ==
  LET first == IF \A k \in 1..Len(details) : details[k] # SP
                 THEN details
                 ELSE SubSeq(details, 1,
                             (CHOOSE k \in 1..Len(details) :
                                details[k] = SP /\ \A j \in 1..(k - 1) : details[j] # SP)
                             - 1)
  IN  IF first = <<>> THEN UNKNOWNTOOL ELSE first

(* the tool name in the summary of a tool-status message; <<>> otherwise *)
toolOf(text) ==
  IF startsWith(text, START) \/ startsWith(text, END)
    THEN toolName(toolStatusDetails(text))
    ELSE <<>>

(* summary.textContent without the tool name; "" for a message that has   *)
(* no summary (user, ai and loading messages)                             *)
summaryOf(text, sender) ==
  IF startsWith(text, START) THEN "Calling Tool"
  ELSE IF startsWith(text, END)
    THEN IF isError(toolStatusDetails(text))
           THEN "Tool Finished (Error)" ELSE "Tool Finished (Success)"
  ELSE IF sender \in {"system", "system error", "system tool-status"}
    THEN IF startsWith(text, ERR) THEN "System Error" ELSE "System Message"
  ELSE ""

addMessage(dom, text, sender) ==
  [children |-> Append(dom.children,
                       [id |-> dom.created + 1,
                        classes |-> classesAfterAdd(text, sender),
                        text |-> text,
                        summary |-> summaryOf(text, sender),
                        tool |-> toolOf(text),
                        image |-> null]),
   created |-> dom.created + 1]

RECURSIVE addMessages(_, _, _)
addMessages(dom, texts, sender) ==
  IF texts = <<>> THEN dom
  ELSE addMessages(addMessage(dom, Head(texts), sender), Tail(texts), sender)

indexOf(dom, id) ==
  IF \E i \in 1..Len(dom.children) : dom.children[i].id = id
    THEN CHOOSE i \in 1..Len(dom.children) : dom.children[i].id = id
    ELSE 0

updateThrows(senderClass) == hasWhitespace(senderClass)

updateMessageContent(dom, messageDiv, text, senderClass) ==
  LET i == indexOf(dom, messageDiv)
      el == IF updateThrows(senderClass)
              THEN [id |-> messageDiv, classes |-> {"message"}, text |-> <<>>,
                    summary |-> "", tool |-> <<>>, image |-> null]
              ELSE [id |-> messageDiv,
                    classes |-> classesAfterUpdate(text, senderClass),
                    text |-> text,
                    summary |-> summaryOf(text, senderClass),
                    tool |-> toolOf(text),
                    image |-> null]
  IN  IF i = 0 THEN dom
      ELSE [dom EXCEPT !.children = [dom.children EXCEPT ![i] = el]]

removeElement_Keep(dom, messageDiv) == dom

removeElement(dom, messageDiv) ==
  [dom EXCEPT !.children =
     SelectSeq(dom.children, LAMBDA e : e.id # messageDiv)]

(* ------------------------------------------------ the response classifier *)
isSentinelLine_StartOnly(line) == startsWith(line, START)

isSentinelLine(line) == startsWith(line, START) \/ startsWith(line, END)

statusMessages(responseText) ==
  SelectSeq(split(responseText), isSentinelLine)

finalReplyLines(responseText) ==
  SelectSeq(split(responseText),
            LAMBDA line : ~isSentinelLine(line) /\ Len(trim(line)) > 0)

finalReply(responseText) == trim(join(finalReplyLines(responseText)))

EMPTYRESPONSE == <<"(Received empty response)">>

handleBackendResponse_NoSynthetic(dom, loadingMessageDiv, responseText) ==
  LET withStatus == addMessages(dom, statusMessages(responseText), "system")
      reply == finalReply(responseText)
  IN  IF reply # <<>>
        THEN updateMessageContent(withStatus, loadingMessageDiv, reply, "ai")
        ELSE removeElement(withStatus, loadingMessageDiv)

handleBackendResponse(dom, loadingMessageDiv, responseText) ==
  LET withStatus == addMessages(dom, statusMessages(responseText), "system")
      reply == finalReply(responseText)
  IN  IF reply # <<>>
        THEN updateMessageContent(withStatus, loadingMessageDiv, reply, "ai")
      ELSE IF Len(statusMessages(responseText)) > 0
        THEN removeElement(withStatus, loadingMessageDiv)
      ELSE updateMessageContent(withStatus, loadingMessageDiv, EMPTYRESPONSE, "system")

(* ---------------------------------------------------------- fixed texts *)
PORT == 5001
LOADING == <<"...">>
WELCOME == <<"Ask me Anything!">>
TIP == <<"You can now upload images">>
NOTCONNECTED == <<ERR, SP, "Backend not connected.">>
PROCESSING == <<"Processing image...">>
INVALIDIMAGE == <<"Please select a valid image file.">>
TOOLARGE == <<"Image file is too large.">>
READERROR == <<"Error reading image file. Please try again.">>

ReplyToken(i) == "reply" \o ToString(i)
ErrorToken(i) == "failure" \o ToString(i)

(* Replies the backend gives to send i in the chat specification *)
Replies(i) ==
  { <<>>,
    <<ReplyToken(i)>>,
    <<START, SP, ReplyToken(i)>>,
    <<START, SP, ReplyToken(i), NL, END, SP, ReplyToken(i), NL, ReplyToken(i)>> }

(* ------------------------------------------------- the selected image   *)
clearSelectedImage_Keep == UNCHANGED <<selectedImageData, imagePreview>>

clearSelectedImage ==
  /\ selectedImageData' = null
  /\ imagePreview' = FALSE

(* A file is its MIME type, as the token before the subtype and the      *)
(* subtype, and its size in bytes                                         *)
IMAGE == "image/"
maxSize == 10 * 1024 * 1024

(* file.type.startsWith('image/') *)
isImageType(type) == startsWith(type, IMAGE)

exceedsMaxSize_Inclusive(size) == size >= maxSize

(* file.size > maxSize *)
exceedsMaxSize(size) == size > maxSize

(* handleImageSelection(file) up to reader.readAsDataURL; chatHist keeps, *)
(* for the properties, the file of the last selection and whether the    *)
(* drop handler ignored it                                                *)
handleImageSelection(file) ==
  /\ selections < MaxSelections
  /\ selections' = selections + 1
  /\ IF ~isImageType(file.type)
       THEN /\ chatMessages' = addMessage(chatMessages, INVALIDIMAGE, "system")
            /\ chatHist' = [chatHist EXCEPT !.file = file, !.ignored = FALSE]
            /\ UNCHANGED <<readers, imagePreview>>
     ELSE IF exceedsMaxSize(file.size)
       THEN /\ chatMessages' = addMessage(chatMessages, TOOLARGE, "system")
            /\ chatHist' = [chatHist EXCEPT !.file = file, !.ignored = FALSE]
            /\ UNCHANGED <<readers, imagePreview>>
     ELSE /\ readers' = readers \cup {selections + 1}
          /\ imagePreview' = TRUE
          /\ chatHist' = [chatHist EXCEPT !.removed = FALSE, !.file = file,
                                          !.ignored = FALSE]
          /\ UNCHANGED chatMessages
  /\ UNCHANGED <<pythonPort, initFlow, messageInput, selectedImageData, sends,
                 replyVars, serverVars, hostVars>>

(* change of imageInput: the file chosen in the dialog *)
imageInputChange(file) == handleImageSelection(file)

(* drop on the document: the first file dropped, if its type is image/*   *)
dropFile(file) ==
  IF isImageType(file.type)
    THEN handleImageSelection(file)
    ELSE /\ selections < MaxSelections
         /\ selections' = selections + 1
         /\ chatHist' = [chatHist EXCEPT !.file = file, !.ignored = TRUE]
         /\ UNCHANGED <<pythonPort, initFlow, chatMessages, messageInput,
                        selectedImageData, readers, sends, replyVars, serverVars,
                        imagePreview, hostVars>>

(* reader.onload of the FileReader of selection s *)
readerOnload(s) ==
  /\ s \in readers
  /\ readers' = readers \ {s}
  /\ selectedImageData' = s
  /\ UNCHANGED <<pythonPort, initFlow, chatMessages, messageInput, selections, sends,
                 replyVars, serverVars, imagePreview, chatHist, hostVars>>

(* reader.onerror of the FileReader of selection s *)
readerOnerror(s) ==
  /\ s \in readers
  /\ readers' = readers \ {s}
  /\ chatMessages' = addMessage(chatMessages, READERROR, "system")
  /\ clearSelectedImage
  /\ UNCHANGED <<pythonPort, initFlow, messageInput, selections, sends,
                 replyVars, serverVars, chatHist, hostVars>>

(* removeImageBtn click: the button sits in the preview container *)
removeImageClick ==
  /\ imagePreview
  /\ clearSelectedImage
  /\ chatHist' = [chatHist EXCEPT !.removed = TRUE]
  /\ UNCHANGED <<pythonPort, initFlow, chatMessages, messageInput, readers, selections,
                 sends, replyVars, serverVars, hostVars>>

(* ------------------------------------------------------ the chat send   *)
createImageMessage(dom, imageData, text) ==
  [children |-> Append(dom.children,
                       [id |-> dom.created + 1,
                        classes |-> {"message", "user"},
                        text |-> text,
                        summary |-> "",
                        tool |-> <<>>,
                        image |-> imageData]),
   created |-> dom.created + 1]

(* the messages sendMessage shows for the user's turn *)
userTurn(dom, message, imageData) ==
  IF imageData # null
    THEN LET shown == createImageMessage(dom, imageData, message)
         IN  IF trim(message) = <<>>
               THEN addMessage(shown, PROCESSING, "system")
               ELSE shown
    ELSE addMessage(dom, message, "user")

typeMessage(t) ==
  /\ messageInput' = t
  /\ UNCHANGED <<pythonPort, initFlow, chatMessages, selectedImageData, readers,
                 selections, sends, replyVars, serverVars,
                 imagePreview, chatHist, hostVars>>

(* sendMessage up to its await of fetch(/chat) *)
sendMessage ==
  LET message == trim(messageInput)
  IN  IF message = <<>> /\ selectedImageData = null
        THEN /\ chatHist' = [chatHist EXCEPT !.noops = TRUE]
             /\ UNCHANGED <<pythonPort, chatMessages, initFlow, chatVars, replyVars,
                            serverVars, imagePreview, hostVars>>
      ELSE IF pythonPort = null
        THEN /\ Len(SelectSeq(chatMessages.children,
                              LAMBDA e : e.text = NOTCONNECTED)) < MaxUnconnected
             /\ chatMessages' = addMessage(chatMessages, NOTCONNECTED, "system")
             /\ UNCHANGED <<pythonPort, initFlow, chatVars, replyVars, serverVars,
                            imagePreview, chatHist, hostVars>>
      ELSE
        /\ Len(sends) < MaxSends
        /\ LET shown == userTurn(chatMessages, message, selectedImageData)
               withLoading == addMessage(shown, LOADING, "ai-loading")
           IN  /\ chatMessages' = withLoading
               /\ sends' = Append(sends,
                                  [loadingMessageDiv |-> withLoading.created,
                                   text |-> message,
                                   image |-> selectedImageData,
                                   state |-> "pending",
                                   outcome |-> "pending",
                                   answer |-> <<>>])
        /\ IF selectedImageData # null
             THEN clearSelectedImage
             ELSE UNCHANGED <<selectedImageData, imagePreview>>
        /\ messageInput' = <<>>
        /\ UNCHANGED <<pythonPort, initFlow, readers, selections, replyVars, serverVars,
                       chatHist, hostVars>>

(* the fetch of send i resolved with a 2xx response carrying reply *)
chatResponse(i, reply) ==
  /\ i \in 1..Len(sends)
  /\ sends[i].state = "pending"
  /\ chatMessages' = handleBackendResponse(chatMessages, sends[i].loadingMessageDiv, reply)
  /\ sends' = [sends EXCEPT ![i].state = "done", ![i].outcome = "ok",
                            ![i].answer = reply]
  /\ UNCHANGED <<pythonPort, initFlow, messageInput, selectedImageData, readers,
                 selections, replyVars, serverVars,
                 imagePreview, chatHist, hostVars>>

(* the fetch of send i rejected, or answered non-2xx, or its body did not *)
(* parse: the catch block of sendMessage                                   *)
errorText(i) == <<ERR, SP, ErrorToken(i)>>

chatError(i) ==
  /\ i \in 1..Len(sends)
  /\ sends[i].state = "pending"
  /\ chatMessages' = updateMessageContent(chatMessages, sends[i].loadingMessageDiv,
                                          errorText(i), "system error")
  /\ sends' = [sends EXCEPT ![i].state =
                                IF updateThrows("system error") THEN "rejected" ELSE "done",
                            ![i].outcome = "error",
                            ![i].answer = errorText(i)]
  /\ UNCHANGED <<pythonPort, initFlow, messageInput, selectedImageData, readers,
                 selections, replyVars, serverVars,
                 imagePreview, chatHist, hostVars>>

(* ------------------------------------------------ server list controller *)
FETCHERROR == <<"Error fetching server list">>
STOPPING == <<"Stopping automatic server refresh due to connection error.">>
RESTARTING == <<"Restarting automatic server refresh.">>
CONNECTERROR == <<"Error connecting to backend. Please ensure it is running.">>
CANNOTADD == <<"Cannot add server: Backend not connected.">>
CANNOTDELETE == <<"Cannot delete server: Backend not connected.">>
ATTEMPTADD == <<"Attempting to add server">>
ADDED == <<"Server added">>
ADDERROR == <<"Error adding server">>
UNSUPPORTED == <<"Unsupported file type">>
NOSERVERS == <<"No servers found">>
FOUND == <<"Found server(s). Adding...">>
SKIPPING == <<"Skipping invalid server definition">>
PROCESSERROR == <<"Error processing JSON file">>
ATTEMPTREMOVE == <<"Attempting to remove server">>
REMOVED == <<"Server removed.">>
REMOVEERROR == <<"Error removing server">>

(* The server lists GET /servers can carry *)
ServerLists == {<<>>, <<"srvA">>}

(* What an entry of a config's mcpServers map can be *)
EntryKinds == {"valid", "nocommand", "noargs"}
Configs(k) == UNION {[1..n -> EntryKinds] : n \in 0..k}

idleAdd == [pc |-> "idle", kind |-> "", entries |-> <<>>, i |-> 0,
            allAddedSuccessfully |-> TRUE, rearm |-> FALSE,
            posts |-> <<>>, outcomes |-> <<>>, warnings |-> 0, refreshed |-> 0]
idleDel == [pc |-> "idle", identifier |-> "", outcome |-> "", deletes |-> 0,
            refreshed |-> 0]

(* renderServerList(servers) replaces the displayed list wholesale *)
renderServerList(servers) == servers

(* fetchAndRenderServers up to its await of fetch(/servers) *)
issueRefresh(port, origin) ==
  IF port = null
    THEN UNCHANGED <<refreshes, refreshCount>>
    ELSE /\ refreshes' = refreshes \cup {[id |-> refreshCount + 1, origin |-> origin]}
         /\ refreshCount' = refreshCount + 1

(* the interval callback: fetchAndRenderServers *)
tick ==
  /\ timers # {}
  /\ ops < MaxOps
  /\ ops' = ops + 1
  /\ issueRefresh(pythonPort, "periodic")
  /\ hist' = [hist EXCEPT !.tickAfterFail =
                 @ \/ (pythonPort # null /\ ~backendUp /\ hist.periodicFailures > 0)]
  /\ UNCHANGED <<pythonPort, chatMessages, initFlow, chatVars, replyVars,
                 serverRefreshInterval, timers, timerCount, serverList, addFlow,
                 delFlow, backendUp,
                 imagePreview, chatHist, hostVars>>

(* the catch block of fetchAndRenderServers: the chat after it *)
refreshFailedChat(dom) ==
  LET noted == addMessage(dom, FETCHERROR, "system")
  IN  IF serverRefreshInterval # null THEN addMessage(noted, STOPPING, "system") ELSE noted

(* whether the continuation of the caller awaiting a refresh arms the timer: *)
(* initializeApp line 635, the add handler lines 738 and 803                 *)
armsAfterRefresh_AnyAdd(origin, interval) ==
  CASE origin = "init" -> interval = null
    [] origin = "add" ->
         /\ addFlow.rearm
         /\ interval = null
         /\ pythonPort # null
    [] OTHER -> FALSE

armsAfterRefresh_Unchecked(origin, interval) ==
  CASE origin = "init" -> TRUE
    [] origin = "add" ->
         /\ addFlow.rearm
         /\ addFlow.allAddedSuccessfully
         /\ pythonPort # null
    [] OTHER -> FALSE

armsAfterRefresh(origin, interval) ==
  CASE origin = "init" -> interval = null
    [] origin = "add" ->
         /\ addFlow.rearm
         /\ addFlow.allAddedSuccessfully
         /\ interval = null
         /\ pythonPort # null
    [] OTHER -> FALSE

rendersResponse_NewestOnly(r) == r.id > hist.newest

(* whether a response to refresh r is rendered when it resolves *)
rendersResponse(r) == TRUE

(* GET /servers of refresh r resolved: the rest of fetchAndRenderServers, *)
(* then the continuation of the caller that awaited it                    *)
refreshResolved(r, ok, payload) ==
  /\ r \in refreshes
  /\ ok => backendUp
  /\ refreshes' = refreshes \ {r}
  /\ LET failed == ~ok
         interval == IF failed THEN null ELSE serverRefreshInterval
         live == IF failed THEN timers \ {serverRefreshInterval} ELSE timers
         dom == IF failed THEN refreshFailedChat(chatMessages) ELSE chatMessages
         arm == armsAfterRefresh(r.origin, interval)
         shown == IF failed THEN <<>> ELSE payload
     IN  /\ serverList' = IF rendersResponse(r) THEN renderServerList(shown) ELSE serverList
         /\ serverRefreshInterval' = IF arm THEN timerCount + 1 ELSE interval
         /\ timers' = IF arm THEN live \cup {timerCount + 1} ELSE live
         /\ timerCount' = IF arm THEN timerCount + 1 ELSE timerCount
         /\ chatMessages' = IF arm /\ r.origin = "add"
                               THEN addMessage(dom, RESTARTING, "system")
                               ELSE dom
         /\ hist' = [hist EXCEPT
                        !.failedSince = @ \/ failed,
                        !.periodicFailures =
                           IF failed /\ r.origin = "periodic" /\ ~backendUp /\ @ < 2
                             THEN @ + 1 ELSE @,
                        !.newest = IF r.id > @ THEN r.id ELSE @,
                        !.lastId = r.id,
                        !.lastOrigin = r.origin,
                        !.lastPayload = shown]
  /\ initFlow' = IF r.origin = "init" THEN "done" ELSE initFlow
  /\ addFlow' = IF r.origin = "add" THEN [addFlow EXCEPT !.pc = "idle"] ELSE addFlow
  /\ delFlow' = IF r.origin = "delete" THEN [delFlow EXCEPT !.pc = "idle"] ELSE delFlow
  /\ UNCHANGED <<pythonPort, chatVars, replyVars, refreshCount, backendUp, ops,
                 imagePreview, chatHist, hostVars>>

(* initializeApp: getPythonPort resolved; up to the await of the refresh *)
initializeApp ==
  /\ initFlow = "port"
  /\ pythonPort' = PORT
  /\ chatMessages' = addMessage(addMessage(chatMessages, WELCOME, "ai"), TIP, "system")
  /\ issueRefresh(PORT, "init")
  /\ initFlow' = "refresh"
  /\ UNCHANGED <<chatVars, replyVars, serverRefreshInterval, timers, timerCount,
                 serverList, addFlow, delFlow, backendUp, ops, hist,
                 imagePreview, chatHist, hostVars>>

(* initializeApp: getPythonPort rejected; the catch block *)
initializeAppFailed ==
  /\ initFlow = "port"
  /\ chatMessages' = addMessage(chatMessages, CONNECTERROR, "system")
  /\ serverList' = renderServerList(<<>>)
  /\ timers' = timers \ {serverRefreshInterval}
  /\ serverRefreshInterval' = null
  /\ initFlow' = "failed"
  /\ UNCHANGED <<pythonPort, chatVars, replyVars, timerCount, refreshes, refreshCount,
                 addFlow, delFlow, backendUp, ops, hist,
                 imagePreview, chatHist, hostVars>>

loseConnectivity ==
  /\ backendUp
  /\ pythonPort # null
  /\ backendUp' = FALSE
  /\ UNCHANGED <<pythonPort, chatMessages, initFlow, chatVars, replyVars,
                 serverRefreshInterval, timers, timerCount, refreshes, refreshCount,
                 serverList, addFlow, delFlow, ops, hist,
                 imagePreview, chatHist, hostVars>>

(* ------------------------------------------------------- adding servers *)
(* addServerBtn click, up to the await of showOpenDialog *)
addServerClick ==
  /\ addFlow.pc = "idle"
  /\ ops < MaxOps
  /\ ops' = ops + 1
  /\ IF pythonPort = null
       THEN /\ chatMessages' = addMessage(chatMessages, CANNOTADD, "system")
            /\ addFlow' = idleAdd
       ELSE /\ addFlow' = [idleAdd EXCEPT !.pc = "dialog"]
            /\ UNCHANGED chatMessages
  /\ UNCHANGED <<pythonPort, initFlow, chatVars, replyVars, serverRefreshInterval,
                 timers, timerCount, refreshes, refreshCount, serverList, delFlow,
                 backendUp, hist,
                 imagePreview, chatHist, hostVars>>

(* showOpenDialog resolved: nothing chosen, or a file of some type *)
dialogResolved(choice) ==
  /\ addFlow.pc = "dialog"
  /\ CASE choice = "cancel" ->
            /\ addFlow' = [addFlow EXCEPT !.pc = "idle"]
            /\ UNCHANGED chatMessages
        [] choice = "other" ->
            /\ addFlow' = [addFlow EXCEPT !.pc = "idle"]
            /\ chatMessages' = addMessage(chatMessages, UNSUPPORTED, "system")
        [] choice = "py" ->
            /\ addFlow' = [addFlow EXCEPT !.pc = "post", !.kind = "py"]
            /\ chatMessages' = addMessage(chatMessages, ATTEMPTADD, "system")
        [] OTHER ->
            /\ addFlow' = [addFlow EXCEPT !.pc = "readfile", !.kind = "json"]
            /\ chatMessages' = addMessage(chatMessages, ATTEMPTADD, "system")
  /\ UNCHANGED <<pythonPort, initFlow, chatVars, replyVars, serverRefreshInterval,
                 timers, timerCount, refreshes, refreshCount, serverList, delFlow,
                 backendUp, ops, hist,
                 imagePreview, chatHist, hostVars>>

(* POST /servers {path} resolved; both branches end awaiting a refresh *)
pyPostResolved(ok) ==
  /\ addFlow.pc = "post"
  /\ ok => backendUp
  /\ chatMessages' = addMessage(chatMessages, IF ok THEN ADDED ELSE ADDERROR, "system")
  /\ issueRefresh(pythonPort, "add")
  /\ addFlow' = [addFlow EXCEPT !.pc = "refresh", !.rearm = ok,
                                 !.allAddedSuccessfully = ok,
                                 !.posts = <<1>>, !.outcomes = <<ok>>, !.refreshed = 1]
  /\ hist' = [hist EXCEPT !.failedSince = IF ok THEN FALSE ELSE @]
  /\ UNCHANGED <<pythonPort, initFlow, chatVars, replyVars, serverRefreshInterval,
                 timers, timerCount, serverList, delFlow, backendUp, ops,
                 imagePreview, chatHist, hostVars>>

isValidEntry_CommandOnly(entry) == entry # "nocommand"

(* line 773: the entry has a command and an args array *)
isValidEntry(entry) == entry = "valid"

RECURSIVE nextValid(_, _)
nextValid(entries, i) ==
  IF i > Len(entries) \/ isValidEntry(entries[i]) THEN i ELSE nextValid(entries, i + 1)

(* The for loop of the JSON branch from entry i to its next await: invalid *)
(* entries are skipped with a warning; the first valid one is posted; past *)
(* the last entry the list is refreshed.                                   *)
jsonLoop(flow, i) ==
  LET j == nextValid(flow.entries, i)
      skipped == j - i
      f == [flow EXCEPT !.i = j,
                        !.warnings = @ + skipped,
                        !.allAddedSuccessfully = @ /\ skipped = 0]
  IN  IF j <= Len(flow.entries)
        THEN [f EXCEPT !.pc = "jsonpost", !.posts = Append(@, j)]
        ELSE [f EXCEPT !.pc = "refresh", !.rearm = TRUE, !.refreshed = @ + 1]

jsonLoopChat(dom, flow, i) ==
  addMessages(dom, [k \in 1..(nextValid(flow.entries, i) - i) |-> SKIPPING], "system")

(* readFileContent rejected, JSON.parse threw, or the mcpServers object is *)
(* missing: the outer catch block of the JSON branch                      *)
readFileFailed ==
  /\ addFlow.pc = "readfile"
  /\ chatMessages' = addMessage(chatMessages, PROCESSERROR, "system")
  /\ issueRefresh(pythonPort, "add")
  /\ addFlow' = [addFlow EXCEPT !.pc = "refresh", !.kind = "badjson",
                                 !.rearm = FALSE, !.refreshed = 1]
  /\ UNCHANGED <<pythonPort, initFlow, chatVars, replyVars, serverRefreshInterval,
                 timers, timerCount, serverList, delFlow, backendUp, ops, hist,
                 imagePreview, chatHist, hostVars>>

(* readFileContent resolved and the text parsed: config is the mcpServers *)
(* map, its entries in key order                                          *)
readFileResolved(config) ==
  /\ addFlow.pc = "readfile"
  /\ IF Len(config) = 0
       THEN /\ chatMessages' = addMessage(chatMessages, NOSERVERS, "system")
            /\ addFlow' = [addFlow EXCEPT !.pc = "idle"]
            /\ UNCHANGED <<refreshes, refreshCount>>
     ELSE LET flow == jsonLoop([addFlow EXCEPT !.entries = config], 1)
          IN  /\ chatMessages' = jsonLoopChat(addMessage(chatMessages, FOUND, "system"),
                                              flow, 1)
              /\ addFlow' = flow
              /\ IF flow.pc = "refresh"
                   THEN issueRefresh(pythonPort, "add")
                   ELSE UNCHANGED <<refreshes, refreshCount>>
  /\ UNCHANGED <<pythonPort, initFlow, chatVars, replyVars, serverRefreshInterval,
                 timers, timerCount, serverList, delFlow, backendUp, ops, hist,
                 imagePreview, chatHist, hostVars>>

(* POST /servers {name, command, args} of entry i resolved; the loop goes on *)
jsonPostResolved(ok) ==
  /\ addFlow.pc = "jsonpost"
  /\ ok => backendUp
  /\ LET noted == addMessage(chatMessages, IF ok THEN ADDED ELSE ADDERROR, "system")
         after == [addFlow EXCEPT !.allAddedSuccessfully = @ /\ ok,
                                  !.outcomes = Append(@, ok)]
         flow == jsonLoop(after, addFlow.i + 1)
     IN  /\ chatMessages' = jsonLoopChat(noted, after, addFlow.i + 1)
         /\ addFlow' = flow
         /\ IF flow.pc = "refresh"
              THEN issueRefresh(pythonPort, "add")
              ELSE UNCHANGED <<refreshes, refreshCount>>
  /\ hist' = [hist EXCEPT !.failedSince = IF ok THEN FALSE ELSE @]
  /\ UNCHANGED <<pythonPort, initFlow, chatVars, replyVars, serverRefreshInterval,
                 timers, timerCount, serverList, delFlow, backendUp, ops,
                 imagePreview, chatHist, hostVars>>

(* ----------------------------------------------------- removing servers *)
refreshesAfterDelete_SuccessOnly(outcome) == outcome = "success"

(* whether deleteServer refreshes the list after this outcome of DELETE:  *)
(* line 520 on success, line 532 in the catch block                       *)
refreshesAfterDelete(outcome) == outcome \in {"success", "failure", "threw"}

(* a delete button of the rendered list clicked: deleteServer up to its   *)
(* await of fetch(DELETE /servers)                                        *)
deleteServer(serverIdentifier) ==
  /\ delFlow.pc = "idle"
  /\ ops < MaxOps
  /\ ops' = ops + 1
  /\ \E k \in 1..Len(serverList) : serverList[k] = serverIdentifier
  /\ IF pythonPort = null
       THEN /\ chatMessages' = addMessage(chatMessages, CANNOTDELETE, "system")
            /\ delFlow' = idleDel
       ELSE /\ chatMessages' = addMessage(chatMessages, ATTEMPTREMOVE, "system")
            /\ delFlow' = [idleDel EXCEPT !.pc = "delete", !.deletes = 1,
                                          !.identifier = serverIdentifier]
  /\ UNCHANGED <<pythonPort, initFlow, chatVars, replyVars, serverRefreshInterval,
                 timers, timerCount, refreshes, refreshCount, serverList, addFlow,
                 backendUp, hist,
                 imagePreview, chatHist, hostVars>>

(* DELETE /servers resolved with status success, with a failure status,   *)
(* or the fetch or the body parse threw                                   *)
deleteResolved(outcome) ==
  /\ delFlow.pc = "delete"
  /\ outcome = "success" => backendUp
  /\ chatMessages' = addMessage(chatMessages,
                                IF outcome = "success" THEN REMOVED ELSE REMOVEERROR,
                                "system")
  /\ IF refreshesAfterDelete(outcome)
       THEN /\ issueRefresh(pythonPort, "delete")
            /\ delFlow' = [delFlow EXCEPT !.pc = "refresh", !.refreshed = @ + 1,
                                          !.outcome = outcome]
       ELSE /\ delFlow' = [delFlow EXCEPT !.pc = "idle", !.outcome = outcome]
            /\ UNCHANGED <<refreshes, refreshCount>>
  /\ UNCHANGED <<pythonPort, initFlow, chatVars, replyVars, serverRefreshInterval,
                 timers, timerCount, serverList, addFlow, backendUp, ops, hist,
                 imagePreview, chatHist, hostVars>>

(* ------------------------------------------------- the settings panel   *)
(* settings holds the panel of the renderer: its two classes, the values  *)
(* of its controls, the IPC calls it has in flight (in call order), and,  *)
(* for the properties, the last panel event, the panel state before it,   *)
(* the host state when the panel was last opened, whether a save call was *)
(* made since, the numbers of save calls and of local rejections, the     *)
(* last save click (the inputs of a click in the dialog) and whether the  *)
(* POSTs of the last save call handled were answered and it succeeded.    *)
(* host holds main.js: currentBackend and what the backend was last told. *)
APIKEYREQUIRED == <<"API key is required for this provider.">>
SETTINGSSAVED == <<"Settings saved successfully. Backend re-initialized.">>
SAVEERROR == <<"Error saving settings">>

BACKEND_TYPES == {"gemini", "ollama", "openai", "mlx", "anthropic", "cohere"}
ApiKeys == {<<>>, <<SP>>, <<"k">>}
Models == {"", "m1"}

requiresKey_OpenAIOnly(backend) == backend = "openai"

requiresKey(backend) == backend \in {"gemini", "openai", "anthropic", "cohere"}

rendererVars == <<pythonPort, initFlow, chatVars, replyVars, serverVars,
                  imagePreview, chatHist>>

idleSettings ==
  [panelOpen |-> FALSE, overlayActive |-> FALSE,
   backendSelect |-> "gemini", apiKey |-> <<>>,
   loads |-> 0, changes |-> <<>>, saves |-> <<>>,
   ops |-> 0, last |-> "", before |-> FALSE,
   atOpen |-> [currentBackend |-> "", told |-> ""], saveCalled |-> FALSE,
   calls |-> 0, rejected |-> 0,
   lastClick |-> [origin |-> "", key |-> <<>>, backend |-> ""],
   handled |-> [answered |-> FALSE, success |-> FALSE],
   loaded |-> [apiKey |-> <<>>, path |-> "none", afterKey |-> FALSE]]

idleHost ==
  [currentBackend |-> "ollama",
   told |-> [backend |-> "", apiKey |-> <<"unset">>, model |-> ""]]

(* settingsBtn click *)
openSettings ==
  /\ settings.ops < MaxSettingsOps
  /\ settings' = [settings EXCEPT !.panelOpen = TRUE, !.overlayActive = TRUE,
                                  !.loads = @ + 1, !.ops = @ + 1,
                                  !.last = "open", !.before = settings.panelOpen,
                                  !.atOpen = [currentBackend |-> host.currentBackend,
                                              told |-> host.told.backend],
                                  !.saveCalled = (settings.saves # <<>>)]
  /\ UNCHANGED <<chatMessages, rendererVars, host, monitor, app>>

closesPanel_Never(s) == s

closesPanel(s) == [s EXCEPT !.panelOpen = FALSE, !.overlayActive = FALSE]

(* closeSettingsBtn, settingsCancelBtn and settingsOverlay click *)
closeSettings(how) ==
  /\ IF how = "overlay" THEN settings.overlayActive ELSE settings.panelOpen
  /\ settings' = [closesPanel(settings) EXCEPT !.last = how,
                                               !.before = settings.panelOpen]
  /\ UNCHANGED <<chatMessages, rendererVars, host, monitor, app>>

(* keydown of Escape *)
escapeKey ==
  /\ IF settings.panelOpen
       THEN settings' = [closesPanel(settings) EXCEPT !.last = "escape",
                                                      !.before = settings.panelOpen]
       ELSE UNCHANGED settings
  /\ UNCHANGED <<chatMessages, rendererVars, host, monitor, app>>

getCurrentSettings_EchoKey(h, modelOk) ==
  [apiKey |-> IF h.told.apiKey = <<"unset">> THEN <<>> ELSE h.told.apiKey,
   model |-> IF modelOk THEN h.told.model ELSE "",
   backend |-> h.currentBackend]

(* the get-current-settings handler of main.js: what it returns when its  *)
(* GET /get-model was answered, and when the fetch or the parse threw     *)
getCurrentSettings(h, modelOk) ==
  [apiKey |-> <<>>,
   model |-> IF modelOk THEN h.told.model ELSE "",
   backend |-> h.currentBackend]

(* loadCurrentSettings after getCurrentSettings resolved: the select gets *)
(* the backend returned and settingsApiKey gets the key returned if it is *)
(* not empty. loaded keeps, for the properties, the key returned, the     *)
(* path of the handler and whether a key had been saved before.           *)
loadResolved(modelOk) ==
  /\ settings.loads > 0
  /\ LET currentSettings == getCurrentSettings(host, modelOk)
     IN  settings' = [settings EXCEPT
                        !.loads = @ - 1,
                        !.backendSelect = currentSettings.backend,
                        !.apiKey = IF currentSettings.apiKey # <<>>
                                     THEN currentSettings.apiKey ELSE @,
                        !.loaded = [apiKey |-> currentSettings.apiKey,
                                    path |-> IF modelOk THEN "ok" ELSE "error",
                                    afterKey |-> host.told.apiKey = <<"k">>]]
  /\ UNCHANGED <<chatMessages, rendererVars, host, monitor, app>>

(* the user types into settingsApiKey *)
typeApiKey(key) ==
  /\ settings.panelOpen
  /\ settings.ops < MaxSettingsOps
  /\ key # settings.apiKey
  /\ settings' = [settings EXCEPT !.apiKey = key, !.ops = @ + 1]
  /\ UNCHANGED <<chatMessages, rendererVars, host, monitor, app>>

(* change of settingsBackendSelect, up to the await of setBackend *)
selectBackend(backend) ==
  /\ settings.panelOpen
  /\ settings.ops < MaxSettingsOps
  /\ backend # settings.backendSelect
  /\ settings' = [settings EXCEPT !.backendSelect = backend,
                                  !.changes = Append(@, backend),
                                  !.ops = @ + 1]
  /\ UNCHANGED <<chatMessages, rendererVars, host, monitor, app>>

(* the set-backend handler of main.js for the oldest call in flight: ok   *)
(* is whether POST /set-backend was answered 2xx                          *)
setBackendHandled(ok) ==
  /\ settings.changes # <<>>
  /\ LET backendType == Head(settings.changes)
     IN  host' = [host EXCEPT !.currentBackend = backendType,
                              !.told.backend = IF ok THEN backendType ELSE @]
  /\ settings' = [settings EXCEPT !.changes = Tail(@)]
  /\ UNCHANGED <<chatMessages, rendererVars, monitor, app>>

(* saveSettings of the panel (origin "panel") and the saveBtn click of    *)
(* the settings dialog (origin "dialog"), up to the await of the IPC call *)
keyGiven(origin, key) == IF origin = "panel" THEN trim(key) ELSE key

clickOf(origin, key, backend) ==
  IF origin = "panel" THEN [origin |-> origin, key |-> <<>>, backend |-> ""]
  ELSE [origin |-> origin, key |-> key, backend |-> backend]

saveClick(origin, key, model, backend) ==
  /\ settings.ops < MaxSettingsOps
  /\ IF requiresKey(backend) /\ keyGiven(origin, key) = <<>>
       THEN /\ settings' = [settings EXCEPT
                              !.lastClick = clickOf(origin, key, backend),
                              !.ops = @ + 1, !.rejected = @ + 1,
                              !.last = IF origin = "panel" THEN "saveRejected" ELSE @,
                              !.before = IF origin = "panel" THEN settings.panelOpen ELSE @]
            /\ chatMessages' = IF origin = "panel"
                                 THEN addMessage(chatMessages, APIKEYREQUIRED, "system")
                                 ELSE chatMessages
       ELSE /\ settings' = [settings EXCEPT
                              !.lastClick = clickOf(origin, key, backend),
                              !.ops = @ + 1, !.calls = @ + 1,
                              !.saves = Append(@, [origin |-> origin,
                                                   apiKey |-> keyGiven(origin, key),
                                                   model |-> model,
                                                   backend |-> backend]),
                              !.saveCalled = TRUE,
                              !.last = IF origin = "panel" THEN "saveCalled" ELSE @,
                              !.before = IF origin = "panel" THEN settings.panelOpen ELSE @]
            /\ UNCHANGED chatMessages
  /\ UNCHANGED <<rendererVars, host, monitor, app>>

saveSettings(model) ==
  /\ settings.panelOpen
  /\ saveClick("panel", settings.apiKey, model, settings.backendSelect)

saveBtnClick(key, model, backend) == saveClick("dialog", key, model, backend)

(* the save-api-key handler of main.js for a call: what it leaves in host *)
(* and whether it returns success, given which of its POSTs were answered *)
(* 2xx. pythonPort of main.js is the constant 5001, so the first check of *)
(* the handler never throws.                                              *)
hostAfterSave(h, call, backendOk, keyOk, modelOk) ==
  LET h1 == [h EXCEPT !.currentBackend = call.backend,
                      !.told.backend = IF backendOk THEN call.backend ELSE @]
      h2 == [h1 EXCEPT !.told.apiKey = call.apiKey]
      h3 == [h2 EXCEPT !.told.model = call.model]
  IN  IF ~keyOk THEN h1
      ELSE IF call.model = "" THEN h2
      ELSE IF ~modelOk THEN h2
      ELSE h3

saveSucceeds(call, keyOk, modelOk) == keyOk /\ (call.model = "" \/ modelOk)

(* the oldest save call in flight is handled by main.js and the caller    *)
(* continues with its result                                              *)
saveHandled(backendOk, keyOk, modelOk) ==
  /\ settings.saves # <<>>
  /\ LET call == Head(settings.saves)
         success == saveSucceeds(call, keyOk, modelOk)
         done == [answered |-> (keyOk /\ (call.model = "" \/ modelOk)),
                  success |-> success]
         rest == IF call.origin = "panel"
                   THEN [settings EXCEPT
                           !.saves = Tail(@), !.handled = done,
                           !.last = IF success THEN "saveOk" ELSE "saveFailed",
                           !.before = settings.panelOpen]
                   ELSE [settings EXCEPT !.saves = Tail(@), !.handled = done]
     IN  /\ host' = hostAfterSave(host, call, backendOk, keyOk, modelOk)
         /\ settings' = IF success /\ call.origin = "panel"
                          THEN closesPanel(rest) ELSE rest
         /\ chatMessages' =
              IF call.origin = "panel"
                THEN addMessage(chatMessages,
                                IF success THEN SETTINGSSAVED ELSE SAVEERROR, "system")
                ELSE chatMessages
  /\ UNCHANGED <<rendererVars, monitor, app>>

(* ------------------------------------------------ the startup monitor   *)
(* monitor holds monitorBackendStartup: attempts, whether checkInterval   *)
(* is running, the polls in flight, backendReady, backendStartupStage,    *)
(* and, for the properties, the numbers of polls issued and of stage      *)
(* ready and stage error reports.                                         *)
maxAttempts == 30

timedOut_Later(attempts) == attempts > maxAttempts + 1

timedOut(attempts) == attempts > maxAttempts

idleMonitor ==
  [attempts |-> 0, checkInterval |-> TRUE, inFlight |-> 0,
   backendReady |-> FALSE, backendStartupStage |-> "starting",
   polls |-> 0, readyReports |-> 0, errorReports |-> 0]

(* the interval callback up to its await of fetch(/validate-backend) *)
monitorTick ==
  /\ monitor.checkInterval
  /\ IF timedOut(monitor.attempts + 1)
       THEN monitor' = [monitor EXCEPT !.attempts = @ + 1,
                                       !.checkInterval = FALSE,
                                       !.backendStartupStage = "error",
                                       !.errorReports = @ + 1]
       ELSE /\ monitor.inFlight < MaxInFlight
            /\ monitor' = [monitor EXCEPT !.attempts = @ + 1,
                                          !.inFlight = @ + 1,
                                          !.polls = @ + 1]
  /\ UNCHANGED <<chatMessages, rendererVars, settings, host, app>>

stageWhileStarting(attempts) ==
  IF attempts < 5 THEN "starting"
  ELSE IF attempts < 15 THEN "connecting"
  ELSE "initializing"

(* the rest of an interval callback once its fetch settled *)
pollResolved(outcome) ==
  /\ monitor.inFlight > 0
  /\ monitor' =
       CASE outcome = "ok" ->
              [monitor EXCEPT !.inFlight = @ - 1,
                              !.checkInterval = FALSE,
                              !.backendReady = TRUE,
                              !.backendStartupStage = "ready",
                              !.readyReports = IF @ < 2 THEN @ + 1 ELSE @]
         [] outcome = "notok" ->
              [monitor EXCEPT !.inFlight = @ - 1,
                              !.backendStartupStage = "initializing"]
         [] OTHER ->
              [monitor EXCEPT !.inFlight = @ - 1,
                              !.backendStartupStage = stageWhileStarting(monitor.attempts)]
  /\ UNCHANGED <<chatMessages, rendererVars, settings, host, app>>

(* ------------------------------------------------ quitting the app      *)
(* app holds isQuitting, whether pythonProcess is set, the position of    *)
(* the first before-quit handler and whether the application has quit,   *)
(* and, for the properties, the numbers of before-quit invocations, of    *)
(* quits prevented, of disconnect-all-servers requests, of terminations   *)
(* attempted by the first handler and of its app.quit() calls, how the    *)
(* request ended and whether pythonProcess was set then.                  *)
idleApp ==
  [isQuitting |-> FALSE, pythonProcess |-> TRUE, pc |-> "running", quitted |-> FALSE,
   invocations |-> 0, prevented |-> 0, requests |-> 0, kills |-> 0, quits |-> 0,
   outcome |-> "", hadProcess |-> FALSE]

prevents_Always(a) == TRUE

(* whether an invocation of the before-quit handler prevents the quit *)
prevents(a) == ~a.isQuitting

(* the before-quit handler up to its first await: a later invocation      *)
(* returns and the quit proceeds; the first one prevents the quit, sets   *)
(* isQuitting and sends the disconnect-all-servers request                *)
beforeQuit(a) ==
  IF prevents(a)
    THEN [a EXCEPT !.invocations = @ + 1, !.prevented = @ + 1, !.isQuitting = TRUE,
                   !.requests = @ + 1, !.pc = "disconnecting"]
    ELSE [a EXCEPT !.invocations = @ + 1, !.quitted = TRUE]

(* the user quits the application, or the main window is closed *)
quitRequested ==
  /\ ~app.quitted
  /\ app.invocations < MaxQuits
  /\ app' = beforeQuit(app)
  /\ UNCHANGED <<chatMessages, rendererVars, settings, host, monitor>>

(* Promise.race of the request and the 3 second timer settled: the        *)
(* response was ok or not ok, the fetch rejected, or the timer won. The   *)
(* handler goes on to terminate pythonProcess if it is set and waits.     *)
disconnectSettled(outcome) ==
  /\ ~app.quitted
  /\ app.pc = "disconnecting"
  /\ app' = [app EXCEPT !.outcome = outcome,
                        !.hadProcess = app.pythonProcess,
                        !.kills = IF app.pythonProcess THEN @ + 1 ELSE @,
                        !.pc = IF app.pythonProcess THEN "waiting" ELSE "scheduled"]
  /\ UNCHANGED <<chatMessages, rendererVars, settings, host, monitor>>

(* the wait after the termination elapsed: app.quit() is scheduled *)
waitElapsed ==
  /\ ~app.quitted
  /\ app.pc = "waiting"
  /\ app' = [app EXCEPT !.pc = "scheduled"]
  /\ UNCHANGED <<chatMessages, rendererVars, settings, host, monitor>>

(* the timer of the handler fired: app.quit(), which emits before-quit *)
quitTimerFired ==
  /\ ~app.quitted
  /\ app.pc = "scheduled"
  /\ app' = beforeQuit([app EXCEPT !.quits = @ + 1, !.pc = "done"])
  /\ UNCHANGED <<chatMessages, rendererVars, settings, host, monitor>>

(* the close event of pythonProcess *)
processClosed ==
  /\ ~app.quitted
  /\ app.pythonProcess
  /\ app' = [app EXCEPT !.pythonProcess = FALSE]
  /\ UNCHANGED <<chatMessages, rendererVars, settings, host, monitor>>

(* ------------------------------------------- the backend composing a reply *)
LineChars == {START, END, SP, "x"}
Lines(k) == UNION {[1..n -> LineChars] : n \in 0..k}
room == MaxLen - Len(backendReply) - (IF emitted > 0 THEN 1 ELSE 0)

emitLine(line) ==
  /\ Len(sends) > 0 /\ sends[1].state = "pending"
  /\ backendReply' = IF emitted = 0 THEN line ELSE backendReply \o <<NL>> \o line
  /\ emitted' = emitted + 1

(* the backend writes "TOOL_CALL_START: <detail>" *)
emitStart(detail) ==
  /\ emitLine(<<START>> \o detail)
  /\ nStart' = nStart + 1
  /\ UNCHANGED <<pythonPort, chatMessages, initFlow, chatVars, knownBody, bodyLines,
                 nEnd, serverVars,
                 imagePreview, chatHist, hostVars>>

(* the backend writes "TOOL_CALL_END: <detail>" *)
emitEnd(detail) ==
  /\ emitLine(<<END>> \o detail)
  /\ nEnd' = nEnd + 1
  /\ UNCHANGED <<pythonPort, chatMessages, initFlow, chatVars, knownBody, bodyLines,
                 nStart, serverVars,
                 imagePreview, chatHist, hostVars>>

(* the backend writes one line of the reply body *)
emitBody(line) ==
  /\ IF line = <<>> THEN TRUE ELSE line[1] \notin {START, END}
  /\ emitLine(line)
  /\ knownBody' = IF bodyLines = 0 THEN line ELSE knownBody \o <<NL>> \o line
  /\ bodyLines' = bodyLines + 1
  /\ UNCHANGED <<pythonPort, chatMessages, initFlow, chatVars, nStart, nEnd, serverVars,
                 imagePreview, chatHist, hostVars>>

(* --------------------------------------------------------- specifications *)
emptyChat == [children |-> <<>>, created |-> 0]
noFile == [type |-> <<>>, size |-> 0]
noChatHist == [removed |-> FALSE, noops |-> FALSE, file |-> noFile, ignored |-> FALSE]
noHist == [failedSince |-> FALSE, periodicFailures |-> 0, tickAfterFail |-> FALSE,
           newest |-> 0, lastId |-> 0, lastOrigin |-> "", lastPayload |-> <<>>]

(* DOMContentLoaded has run: initializeApp awaits getPythonPort *)
Init ==
  /\ pythonPort = null
  /\ chatMessages = emptyChat
  /\ initFlow = "port"
  /\ messageInput = <<>>
  /\ selectedImageData = null
  /\ readers = {}
  /\ selections = 0
  /\ sends = <<>>
  /\ backendReply = <<>>
  /\ emitted = 0
  /\ knownBody = <<>>
  /\ bodyLines = 0
  /\ nStart = 0
  /\ nEnd = 0
  /\ serverRefreshInterval = null
  /\ timers = {}
  /\ timerCount = 0
  /\ refreshes = {}
  /\ refreshCount = 0
  /\ serverList = <<>>
  /\ addFlow = idleAdd
  /\ delFlow = idleDel
  /\ backendUp = TRUE
  /\ ops = 0
  /\ hist = noHist
  /\ imagePreview = FALSE
  /\ chatHist = noChatHist
  /\ settings = idleSettings
  /\ host = idleHost
  /\ monitor = idleMonitor
  /\ app = idleApp

(* The server list controller: startup, the timer, add and remove *)
NextServers ==
  \/ initializeApp
  \/ initializeAppFailed
  \/ tick
  \/ \E r \in refreshes : \E payload \in ServerLists : refreshResolved(r, TRUE, payload)
  \/ \E r \in refreshes : refreshResolved(r, FALSE, <<>>)
  \/ loseConnectivity
  \/ addServerClick
  \/ \E choice \in {"cancel", "other", "py", "json"} : dialogResolved(choice)
  \/ \E ok \in BOOLEAN : pyPostResolved(ok)
  \/ readFileFailed
  \/ \E config \in {<<"valid">>, <<"nocommand", "valid">>} : readFileResolved(config)
  \/ \E ok \in BOOLEAN : jsonPostResolved(ok)
  \/ \E id \in {"srvA"} : deleteServer(id)
  \/ \E outcome \in {"success", "failure", "threw"} : deleteResolved(outcome)

SpecServers == Init /\ [][NextServers]_vars

(* Importing a JSON config: startup, then one run of the add-server flow *)
NextImport ==
  \/ initializeApp
  \/ \E r \in refreshes : \E payload \in ServerLists : refreshResolved(r, TRUE, payload)
  \/ \E r \in refreshes : refreshResolved(r, FALSE, <<>>)
  \/ (ops = 0 /\ addServerClick)
  \/ \E choice \in {"cancel", "other", "py", "json"} : dialogResolved(choice)
  \/ \E ok \in BOOLEAN : pyPostResolved(ok)
  \/ readFileFailed
  \/ \E config \in Configs(MaxEntries) : readFileResolved(config)
  \/ \E ok \in BOOLEAN : jsonPostResolved(ok)

SpecImport == Init /\ [][NextImport]_vars

(* The conversation: startup, typing, sends and their responses *)
NextChat ==
  \/ initializeApp
  \/ initializeAppFailed
  \/ \E r \in refreshes : refreshResolved(r, TRUE, <<>>)
  \/ \E r \in refreshes : refreshResolved(r, FALSE, <<>>)
  \/ \E t \in {<<>>, <<"x">>} : typeMessage(t)
  \/ sendMessage
  \/ \E i \in 1..MaxSends : \E reply \in Replies(i) : chatResponse(i, reply)
  \/ \E i \in 1..MaxSends : chatError(i)

SpecChat == Init /\ [][NextChat]_vars

pngFile == [type |-> <<IMAGE, "png">>, size |-> 1]
textFile == [type |-> <<"text/", "plain">>, size |-> 1]

(* The selected-image slot: startup, selections, removals and sends. The  *)
(* handling of a response reads and writes nothing of the slot: the chat  *)
(* requests stay in flight here.                                          *)
NextImage ==
  \/ initializeApp
  \/ \E r \in refreshes : refreshResolved(r, TRUE, <<>>)
  \/ typeMessage(<<"x">>)
  \/ sendMessage
  \/ \E file \in {pngFile, textFile} : imageInputChange(file)
  \/ \E s \in readers : readerOnload(s)
  \/ \E s \in readers : readerOnerror(s)
  \/ removeImageClick

SpecImage == Init /\ [][NextImage]_vars

(* Selecting files: startup, files of any type and size chosen in the     *)
(* dialog or dropped, their readers, removals and sends                   *)
FileTypes == {<<IMAGE, "png">>, <<"text/", "plain">>, <<"x-", IMAGE>>, <<>>}
FileSizes == {1, maxSize, maxSize + 1}
Files == [type : FileTypes, size : FileSizes]

NextSelect ==
  \/ initializeApp
  \/ \E r \in refreshes : refreshResolved(r, TRUE, <<>>)
  \/ \E file \in Files : imageInputChange(file)
  \/ \E file \in Files : dropFile(file)
  \/ \E s \in readers : readerOnload(s)
  \/ \E s \in readers : readerOnerror(s)
  \/ removeImageClick
  \/ sendMessage

SpecSelect == Init /\ [][NextSelect]_vars

(* The composer: startup, what the user types, sends and their replies *)
UserTexts == {<<>>, <<SP>>, <<"x">>, <<SP, "x">>, <<START, SP, "x">>, <<END, SP, "x">>}

NextCompose ==
  \/ initializeApp
  \/ \E r \in refreshes : refreshResolved(r, TRUE, <<>>)
  \/ \E t \in UserTexts : typeMessage(t)
  \/ sendMessage
  \/ \E i \in 1..MaxSends : chatResponse(i, <<ReplyToken(i)>>)

SpecCompose == Init /\ [][NextCompose]_vars

(* The settings panel against main.js: the panel is opened and closed,    *)
(* the provider is changed and saved                                      *)
NextSettings ==
  \/ openSettings
  \/ \E how \in {"cancel", "overlay", "closeBtn"} : closeSettings(how)
  \/ escapeKey
  \/ \E modelOk \in BOOLEAN : loadResolved(modelOk)
  \/ \E backend \in {"ollama", "openai"} : selectBackend(backend)
  \/ \E ok \in BOOLEAN : setBackendHandled(ok)
  \/ saveSettings("")
  \/ \E backendOk, keyOk \in BOOLEAN : saveHandled(backendOk, keyOk, TRUE)

SpecSettings == Init /\ [][NextSettings]_vars

(* Saving: the panel and the settings dialog, every provider and key *)
NextSave ==
  \/ openSettings
  \/ \E modelOk \in BOOLEAN : loadResolved(modelOk)
  \/ \E key \in ApiKeys : typeApiKey(key)
  \/ \E backend \in BACKEND_TYPES : selectBackend(backend)
  \/ setBackendHandled(TRUE)
  \/ \E model \in Models : saveSettings(model)
  \/ \E key \in ApiKeys : \E backend \in BACKEND_TYPES : saveBtnClick(key, "", backend)
  \/ \E keyOk, modelOk \in BOOLEAN : saveHandled(TRUE, keyOk, modelOk)

SpecSave == Init /\ [][NextSave]_vars

(* The startup monitor of main.js: the interval fires and polls settle *)
NextMonitor ==
  \/ monitorTick
  \/ \E outcome \in {"ok", "notok", "threw"} : pollResolved(outcome)

SpecMonitor ==
  /\ Init
  /\ [][NextMonitor]_vars
  /\ WF_vars(monitorTick)
  /\ WF_vars(\E outcome \in {"ok", "notok", "threw"} : pollResolved(outcome))

(* Quitting: the application is quit, at any time of the startup monitor; *)
(* the timers of the before-quit handler fire and its request settles or  *)
(* is timed out                                                           *)
NextQuit ==
  \/ (~app.quitted /\ monitorTick)
  \/ \E outcome \in {"ok", "notok", "threw"} : (~app.quitted /\ pollResolved(outcome))
  \/ quitRequested
  \/ \E outcome \in {"ok", "notok", "threw", "timeout"} : disconnectSettled(outcome)
  \/ waitElapsed
  \/ quitTimerFired
  \/ processClosed

SpecQuit ==
  /\ Init
  /\ [][NextQuit]_vars
  /\ WF_vars(\E outcome \in {"ok", "notok", "threw", "timeout"} :
                disconnectSettled(outcome))
  /\ WF_vars(waitElapsed)
  /\ WF_vars(quitTimerFired)

(* The classifier: one send is pending after a successful startup; the    *)
(* backend composes any reply of up to MaxLen characters and it is handled *)
InitClassifier ==
  /\ pythonPort = PORT
  /\ chatMessages =
       addMessage(addMessage(addMessage(addMessage(emptyChat, WELCOME, "ai"),
                                        TIP, "system"),
                             <<"x">>, "user"),
                  LOADING, "ai-loading")
  /\ initFlow = "done"
  /\ messageInput = <<>>
  /\ selectedImageData = null
  /\ readers = {}
  /\ selections = 0
  /\ sends = <<[loadingMessageDiv |-> 4, text |-> <<"x">>, image |-> null,
                state |-> "pending", outcome |-> "pending", answer |-> <<>>]>>
  /\ backendReply = <<>>
  /\ emitted = 0
  /\ knownBody = <<>>
  /\ bodyLines = 0
  /\ nStart = 0
  /\ nEnd = 0
  /\ serverRefreshInterval = 1
  /\ timers = {1}
  /\ timerCount = 1
  /\ refreshes = {}
  /\ refreshCount = 1
  /\ serverList = <<>>
  /\ addFlow = idleAdd
  /\ delFlow = idleDel
  /\ backendUp = TRUE
  /\ ops = 0
  /\ hist = [noHist EXCEPT !.lastId = 1, !.newest = 1, !.lastOrigin = "init"]
  /\ imagePreview = FALSE
  /\ chatHist = noChatHist
  /\ settings = idleSettings
  /\ host = idleHost
  /\ monitor = idleMonitor
  /\ app = idleApp

NextClassifier ==
  \/ \E detail \in Lines(room - 1) : emitStart(detail)
  \/ \E detail \in Lines(room - 1) : emitEnd(detail)
  \/ \E line \in Lines(room) : emitBody(line)
  \/ chatResponse(1, backendReply)

SpecClassifier == InitClassifier /\ [][NextClassifier]_vars

(* The end event of a tool call: one send is pending; the backend writes  *)
(* a TOOL_CALL_END line for tool calc, character by character after the   *)
(* tool name, and the reply is handled. With a leading space the line is  *)
(* the final reply and is rendered by updateMessageContent.               *)
StatusChars == {STATUS, "e", "E", "r", "o", "k"}
EndPrefixes == {<<END, SP, "calc", SP>>, <<SP, END, SP, "calc", SP>>}

beginEnd(prefix) ==
  /\ backendReply = <<>>
  /\ sends[1].state = "pending"
  /\ backendReply' = prefix
  /\ emitted' = 1
  /\ IF Head(prefix) = END
       THEN nEnd' = 1 /\ UNCHANGED <<knownBody, bodyLines>>
       ELSE nEnd' = 0 /\ knownBody' = prefix /\ bodyLines' = 1
  /\ UNCHANGED <<pythonPort, chatMessages, initFlow, chatVars, nStart, serverVars,
                 imagePreview, chatHist, hostVars>>

statusLen == Len(SelectSeq(backendReply, LAMBDA c : c \in StatusChars))

statusChar(c) ==
  /\ backendReply # <<>>
  /\ sends[1].state = "pending"
  /\ statusLen < MaxStatusLen
  /\ backendReply' = Append(backendReply, c)
  /\ knownBody' = IF bodyLines = 1 THEN Append(knownBody, c) ELSE knownBody
  /\ UNCHANGED <<pythonPort, chatMessages, initFlow, chatVars, emitted, bodyLines,
                 nStart, nEnd, serverVars, imagePreview, chatHist, hostVars>>

NextToolStatus ==
  \/ \E prefix \in EndPrefixes : beginEnd(prefix)
  \/ \E c \in StatusChars : statusChar(c)
  \/ (backendReply # <<>> /\ chatResponse(1, backendReply))

SpecToolStatus == InitClassifier /\ [][NextToolStatus]_vars

(* The tool name of a status line: one send is pending; the backend       *)
(* writes a sentinel and then any characters, whitespace included, and    *)
(* the reply is handled.                                                  *)
NameChars == {SP, TAB, "calc", "x"}

beginLine(sentinel) ==
  /\ backendReply = <<>>
  /\ sends[1].state = "pending"
  /\ backendReply' = <<sentinel>>
  /\ emitted' = 1
  /\ nStart' = IF sentinel = START THEN 1 ELSE 0
  /\ nEnd' = IF sentinel = END THEN 1 ELSE 0
  /\ UNCHANGED <<pythonPort, chatMessages, initFlow, chatVars, knownBody, bodyLines,
                 serverVars, imagePreview, chatHist, hostVars>>

nameChar(c) ==
  /\ backendReply # <<>>
  /\ sends[1].state = "pending"
  /\ Len(backendReply) <= MaxLen
  /\ backendReply' = Append(backendReply, c)
  /\ UNCHANGED <<pythonPort, chatMessages, initFlow, chatVars, emitted, knownBody,
                 bodyLines, nStart, nEnd, serverVars, imagePreview, chatHist, hostVars>>

NextToolName ==
  \/ \E sentinel \in {START, END} : beginLine(sentinel)
  \/ \E c \in NameChars : nameChar(c)
  \/ chatResponse(1, backendReply)

SpecToolName == InitClassifier /\ [][NextToolName]_vars

(* ------------------------------------------------------------ properties *)
beginsWithSentinel(line) ==
  IF line = <<>> THEN FALSE ELSE line[1] \in {START, END}
isBlank(line) == \A k \in 1..Len(line) : line[k] \in {SP, NL}

textsOf(els) == [k \in 1..Len(els) |-> els[k].text]
elementsOf(id) == SelectSeq(chatMessages.children, LAMBDA e : e.id = id)

(* what the handling of send 1's response showed: the messages appended   *)
(* after its placeholder, and the text its placeholder was rewritten with *)
statusShown ==
  textsOf(SelectSeq(chatMessages.children,
                    LAMBDA e : e.id > sends[1].loadingMessageDiv))
replyShown ==
  LET els == elementsOf(sends[1].loadingMessageDiv)
  IN  IF els = <<>> THEN <<>>
      ELSE IF els[1].text = EMPTYRESPONSE THEN <<>>
      ELSE els[1].text

(* C1: for every reply string, each non-blank line ends up in exactly one  *)
(* place, as one status event or as one line of the final reply, in the   *)
(* original order, and the final reply passed on for rendering holds no   *)
(* line that begins with TOOL_CALL_START: or TOOL_CALL_END:.              *)
C1_EveryLineOnceNoSentinelInReply ==
  sends[1].state = "done" =>
    LET lines == SelectSeq(split(backendReply), LAMBDA l : ~isBlank(l))
        events == SelectSeq(lines, beginsWithSentinel)
        rest == SelectSeq(lines, LAMBDA l : ~beginsWithSentinel(l))
        replyLines == IF replyShown = <<>> THEN <<>> ELSE split(replyShown)
    IN  /\ statusShown = events
        /\ Len(replyLines) = Len(rest)
        /\ \A k \in 1..Len(replyLines) :
              /\ k <= Len(rest) => trim(replyLines[k]) = trim(rest[k])
              /\ ~beginsWithSentinel(replyLines[k])

(* C2 as stated: for any interleaving of N start lines, M end lines and    *)
(* the lines of a known body, handling yields exactly N+M status events   *)
(* and a final reply equal to the known body.                             *)
C2_RoundTripAnyBody ==
  sends[1].state = "done" =>
    /\ Len(statusShown) = nStart + nEnd
    /\ replyShown = knownBody

bodyIsTrimmedNoBlankLines ==
  /\ knownBody = trim(knownBody)
  /\ bodyLines > 0 => \A k \in 1..Len(split(knownBody)) : ~isBlank(split(knownBody)[k])

(* C2 amended: the round trip holds for a known body that has no blank    *)
(* line and no leading or trailing whitespace: exactly N+M status events  *)
(* and a final reply equal to the body.                                   *)
C2_RoundTripTrimmedBody ==
  (sends[1].state = "done" /\ bodyIsTrimmedNoBlankLines) =>
    /\ Len(statusShown) = nStart + nEnd
    /\ replyShown = knownBody

C2_Witness ==
  /\ sends[1].state = "done"
  /\ backendReply = <<START, NL, "x", NL, END>>
  /\ nStart = 1 /\ nEnd = 1
  /\ knownBody = <<"x">>
  /\ replyShown = <<"x">>
  /\ Len(statusShown) = 2

(* what the resolution of send i is to show in its placeholder *)
shownFor(i) ==
  IF sends[i].outcome = "error" THEN errorText(i)
  ELSE IF finalReply(sends[i].answer) # <<>> THEN finalReply(sends[i].answer)
  ELSE EMPTYRESPONSE

mentions(text, tok) == \E k \in 1..Len(text) : text[k] = tok

(* C3: once the chat request of a send has succeeded or failed, its        *)
(* placeholder is either rewritten in place with the reply or the error,  *)
(* or removed; it is not left loading, and the reply or error is not also *)
(* appended as a second element.                                          *)
C3_PlaceholderResolved ==
  /\ \A k \in 1..(Len(chatMessages.children) - 1) :
        chatMessages.children[k].id < chatMessages.children[k + 1].id
  /\ \A i \in 1..Len(sends) :
        sends[i].outcome # "pending" =>
          LET els == elementsOf(sends[i].loadingMessageDiv)
          IN  /\ els # <<>> =>
                    /\ "ai-loading" \notin els[1].classes
                    /\ els[1].text = shownFor(i)
              /\ \A k \in 1..Len(chatMessages.children) :
                    LET e == chatMessages.children[k]
                    IN  (e.id # sends[i].loadingMessageDiv /\ shownFor(i) # EMPTYRESPONSE)
                          => e.text # shownFor(i)

(* C4: with overlapping sends each send has its own placeholder, and the  *)
(* response or error of a send is rendered into the placeholder that send *)
(* created, whatever the order of resolution; never into another's.       *)
C4_OwnPlaceholder ==
  \A i \in 1..Len(sends) :
    /\ \A j \in 1..Len(sends) :
          j # i =>
            /\ sends[j].loadingMessageDiv # sends[i].loadingMessageDiv
            /\ \A k \in 1..Len(elementsOf(sends[j].loadingMessageDiv)) :
                  LET e == elementsOf(sends[j].loadingMessageDiv)[k]
                  IN  /\ ~mentions(e.text, ReplyToken(i))
                      /\ ~mentions(e.text, ErrorToken(i))
    /\ (sends[i].outcome = "error"
          \/ (sends[i].outcome = "ok" /\ finalReply(sends[i].answer) # <<>>)) =>
         /\ elementsOf(sends[i].loadingMessageDiv) # <<>>
         /\ elementsOf(sends[i].loadingMessageDiv)[1].text = shownFor(i)

(* C5: once a failed server-list refresh has been handled no refresh      *)
(* timer is armed, and none is armed again until an add-server operation  *)
(* has succeeded after that failure.                                      *)
C5_TimerDisabledAfterFailedRefresh ==
  hist.failedSince => (timers = {} /\ serverRefreshInterval = null)

(* C6: when connectivity is lost, after the first failed periodic refresh *)
(* no further periodic refresh is issued and the fetch-error notice of a  *)
(* periodic refresh is not added again.                                   *)
C6_NotifiedOnce ==
  /\ ~hist.tickAfterFail
  /\ hist.periodicFailures <= 1

refreshesFor(origin) == {r \in refreshes : r.origin = origin}

(* C7: deleteServer issues one DELETE /servers and then exactly one       *)
(* refresh of the list, whether the delete succeeded, returned a failure  *)
(* status or threw.                                                       *)
C7_DeleteThenOneRefresh ==
  /\ delFlow.pc = "delete" =>
        /\ delFlow.deletes = 1
        /\ delFlow.refreshed = 0
        /\ refreshesFor("delete") = {}
  /\ delFlow.pc = "refresh" =>
        /\ delFlow.deletes = 1
        /\ delFlow.refreshed = 1
        /\ Cardinality(refreshesFor("delete")) = 1
  /\ (delFlow.pc = "idle" /\ delFlow.outcome # "") =>
        /\ delFlow.deletes = 1
        /\ delFlow.refreshed = 1
        /\ refreshesFor("delete") = {}

C7_Witness ==
  /\ delFlow.pc = "idle"
  /\ delFlow.outcome = "threw"
  /\ delFlow.deletes = 1
  /\ delFlow.refreshed = 1

(* C8: each refresh that resolves overwrites the displayed list: the list *)
(* shown is the one carried by the response that resolved last, whichever *)
(* request was issued first.                                              *)
C8_LastResponseWins == serverList = hist.lastPayload

C8_Witness ==
  /\ refreshes = {}
  /\ delFlow.pc = "idle" /\ delFlow.refreshed = 1
  /\ hist.lastOrigin = "periodic"
  /\ hist.lastId < hist.newest
  /\ serverList = <<"srvA">>

hasCommandAndArgs(entry) == entry \notin {"nocommand", "noargs"}
indices(entries) == [k \in 1..Len(entries) |-> k]
expectedPosts(entries) ==
  SelectSeq(indices(entries), LAMBDA k : hasCommandAndArgs(entries[k]))
isPrefix(a, b) == Len(a) <= Len(b) /\ a = SubSeq(b, 1, Len(a))

(* C9 as stated: importing a map with k valid and j invalid entries posts *)
(* exactly the k valid ones in map order, reports j skip warnings, and is *)
(* followed by one list refresh.                                          *)
C9_ImportAnyMap ==
  (addFlow.kind = "json" /\ addFlow.pc = "idle") =>
    /\ addFlow.posts = expectedPosts(addFlow.entries)
    /\ addFlow.warnings = Len(addFlow.entries) - Len(expectedPosts(addFlow.entries))
    /\ addFlow.refreshed = 1

(* C9 amended: for a map with at least one entry, exactly the valid       *)
(* entries are posted in map order whatever the earlier posts returned,   *)
(* one warning is reported per invalid entry, and one refresh follows     *)
(* after the last entry; for an empty map nothing is posted and no        *)
(* refresh follows.                                                       *)
C9_ImportNonEmptyMap ==
  /\ (addFlow.kind = "json" /\ addFlow.pc = "idle" /\ addFlow.entries # <<>>) =>
        /\ addFlow.posts = expectedPosts(addFlow.entries)
        /\ Len(addFlow.outcomes) = Len(addFlow.posts)
        /\ addFlow.warnings = Len(addFlow.entries) - Len(expectedPosts(addFlow.entries))
        /\ addFlow.refreshed = 1
  /\ (addFlow.kind = "json" /\ addFlow.pc = "idle" /\ addFlow.entries = <<>>) =>
        /\ addFlow.posts = <<>>
        /\ addFlow.warnings = 0
        /\ addFlow.refreshed = 0
  /\ addFlow.pc = "jsonpost" =>
        /\ isPrefix(addFlow.posts, expectedPosts(addFlow.entries))
        /\ addFlow.refreshed = 0
        /\ refreshesFor("add") = {}

C9_Witness ==
  /\ addFlow.kind = "json" /\ addFlow.pc = "idle"
  /\ addFlow.entries = <<"valid", "nocommand", "valid">>
  /\ addFlow.posts = <<1, 3>>
  /\ addFlow.outcomes = <<FALSE, TRUE>>
  /\ addFlow.warnings = 1
  /\ addFlow.refreshed = 1

(* C10: the selected-image slot is cleared when a send takes the image,   *)
(* before the chat request is issued, so no selected image is attached to *)
(* two sends.                                                             *)
C10_ImageAttachedOnce ==
  \A i \in 1..Len(sends) :
    sends[i].image # null =>
      /\ selectedImageData # sends[i].image
      /\ \A j \in 1..Len(sends) : j # i => sends[j].image # sends[i].image

C10_Witness ==
  /\ Len(sends) = 2
  /\ sends[1].image = 1
  /\ sends[2].image = null
  /\ sends[1].state = "pending" /\ sends[2].state = "pending"
  /\ selectedImageData = null

(* C11: after the user removed the selected image and made no new         *)
(* selection, the selected-image slot stays empty and a send carries no   *)
(* image, also when the removal came while the file was still being read. *)
C11_RemovedStaysEmpty ==
  /\ [](chatHist.removed => selectedImageData = null)
  /\ [][(chatHist.removed /\ Len(sends') > Len(sends))
          => sends'[Len(sends')].image = null]_vars

(* C12: a send while the trimmed text is empty and no image is selected   *)
(* issues no chat request, adds no message and no placeholder, and leaves *)
(* the input and the image slot as they were.                             *)
C12_EmptySendIsNoOp ==
  [][(isBlank(messageInput) /\ selectedImageData = null)
       => /\ Len(sends') = Len(sends)
          /\ \A k \in 1..Len(chatMessages'.children) :
                k > Len(chatMessages.children)
                  => chatMessages'.children[k].classes \cap {"user", "ai-loading"} = {}
          /\ (chatHist'.noops /\ ~chatHist.noops)
                => UNCHANGED <<chatMessages, messageInput, selectedImageData, sends,
                               imagePreview>>]_vars

C12_Witness ==
  /\ chatHist.noops
  /\ pythonPort # null
  /\ initFlow = "done"
  /\ messageInput = <<SP>>
  /\ selectedImageData = null
  /\ sends = <<>>
  /\ Len(chatMessages.children) = 2

KeyProviders == {"gemini", "openai", "anthropic", "cohere"}
KeylessProviders == {"ollama", "mlx"}
saveClickStep == settings'.rejected # settings.rejected \/ settings'.calls # settings.calls
saveHandledStep == Len(settings'.saves) < Len(settings.saves)

C14_CancelLeavesHostUnchanged ==
  (settings.last \in {"cancel", "overlay", "closeBtn", "escape"}
     /\ ~settings.saveCalled) =>
    /\ host.currentBackend = settings.atOpen.currentBackend
    /\ host.told.backend = settings.atOpen.told

(* C15 as stated: the panel and its overlay are open together or closed   *)
(* together; the settings button opens the panel, and from open each of   *)
(* save, cancel, overlay click and Escape closes it.                      *)
C15_EveryEventCloses ==
  /\ settings.panelOpen = settings.overlayActive
  /\ settings.last = "open" => settings.panelOpen
  /\ (settings.before
        /\ settings.last \in {"cancel", "overlay", "closeBtn", "escape",
                              "saveRejected", "saveFailed", "saveOk"})
       => ~settings.panelOpen

(* C15 amended: the panel and its overlay are open together or closed     *)
(* together; the settings button opens the panel; cancel, overlay click,  *)
(* Escape and a save that succeeded close it; a save that was rejected    *)
(* locally or that failed leaves the panel as it was.                     *)
C15_SuccessfulSaveCloses ==
  /\ settings.panelOpen = settings.overlayActive
  /\ settings.last = "open" => settings.panelOpen
  /\ settings.last \in {"cancel", "overlay", "closeBtn", "escape", "saveOk"}
       => ~settings.panelOpen
  /\ settings.last \in {"saveRejected", "saveFailed"}
       => settings.panelOpen = settings.before

C15_Witness ==
  /\ settings.last = "saveOk"
  /\ settings.before
  /\ ~settings.panelOpen
  /\ ~settings.overlayActive
  /\ settings.rejected = 1

(* C16: the startup monitor issues at most 30 polls; once a poll has      *)
(* succeeded the backend was reported ready and the interval is cleared;  *)
(* once the attempts exceed the bound the stage error was reported and    *)
(* the interval is cleared; a cleared interval issues no poll; and in     *)
(* every run the interval is eventually cleared for good.                 *)
C16_BoundedPolling ==
  /\ [](/\ monitor.polls <= maxAttempts
        /\ monitor.backendReady =>
              (~monitor.checkInterval /\ monitor.readyReports >= 1)
        /\ monitor.attempts > maxAttempts =>
              (~monitor.checkInterval /\ monitor.errorReports = 1)
        /\ ~monitor.checkInterval =>
              (monitor.backendReady \/ monitor.errorReports = 1))
  /\ [][~monitor.checkInterval =>
          (monitor'.polls = monitor.polls /\ ~monitor'.checkInterval)]_vars
  /\ <>[](~monitor.checkInterval)

C16_Witness ==
  /\ monitor.attempts = maxAttempts + 1
  /\ monitor.polls = maxAttempts
  /\ monitor.errorReports = 1
  /\ monitor.backendStartupStage = "error"
  /\ ~monitor.checkInterval
  /\ ~monitor.backendReady
  /\ monitor.inFlight = 0

(* C17: a message added with the user role is rendered as plain text in a *)
(* user message element whatever its text: the element a send adds for   *)
(* the user's text carries the classes message and user and that text.   *)
C17_UserMessagePlain ==
  \A i \in 1..Len(sends) :
    sends[i].image = null =>
      LET els == elementsOf(sends[i].loadingMessageDiv - 1)
      IN  /\ els # <<>>
          /\ els[1].text = sends[i].text
          /\ els[1].classes = {"message", "user"}

(* C18: if the reply consists only of sentinel lines, at least one, the   *)
(* final reply is empty, no reply message is shown and the loading        *)
(* placeholder is removed rather than updated.                            *)
C18_OnlySentinelsRemovesPlaceholder ==
  (sends[1].state = "done"
     /\ \A k \in 1..Len(split(backendReply)) :
           beginsWithSentinel(split(backendReply)[k])) =>
    /\ finalReply(backendReply) = <<>>
    /\ elementsOf(sends[1].loadingMessageDiv) = <<>>
    /\ Len(statusShown) = Len(split(backendReply))
    /\ \A k \in 1..Len(chatMessages.children) :
          LET e == chatMessages.children[k]
          IN  e.id >= sends[1].loadingMessageDiv => "tool-status" \in e.classes

C18_Witness ==
  /\ sends[1].state = "done"
  /\ backendReply = <<START, SP, "x", NL, END>>
  /\ elementsOf(sends[1].loadingMessageDiv) = <<>>
  /\ Len(chatMessages.children) = 5

(* C19: if the reply is empty or whitespace-only there are no status      *)
(* events and no reply text, and exactly one synthetic system message     *)
(* saying an empty response was received is shown, in the slot of the     *)
(* loading placeholder.                                                   *)
C19_EmptyReplySynthetic ==
  (sends[1].state = "done" /\ isBlank(backendReply)) =>
    /\ statusShown = <<>>
    /\ finalReply(backendReply) = <<>>
    /\ Len(chatMessages.children) = sends[1].loadingMessageDiv
    /\ LET e == chatMessages.children[Len(chatMessages.children)]
       IN  /\ e.id = sends[1].loadingMessageDiv
           /\ e.text = EMPTYRESPONSE
           /\ e.classes = {"message", "system"}
           /\ e.summary = "System Message"
    /\ Len(SelectSeq(chatMessages.children, LAMBDA e : e.text = EMPTYRESPONSE)) = 1

C19_Witness ==
  /\ sends[1].state = "done"
  /\ backendReply = <<SP, NL, SP>>
  /\ chatMessages.children[4].text = EMPTYRESPONSE
  /\ Len(chatMessages.children) = 4

(* the status text of the end event written so far: what follows the tool *)
(* name in the line                                                       *)
statusWritten == SelectSeq(backendReply, LAMBDA c : c \in StatusChars)
isLetter(c, lower, upper) == c = lower \/ c = upper
errorFollowsMarker ==
  \E k \in 1..Len(statusWritten) :
    /\ statusWritten[k] = STATUS
    /\ \A j \in 1..(k - 1) : statusWritten[j] # STATUS
    /\ Len(statusWritten) >= k + 5
    /\ isLetter(statusWritten[k + 1], "e", "E")
    /\ isLetter(statusWritten[k + 2], "r", "R")
    /\ isLetter(statusWritten[k + 3], "r", "R")
    /\ isLetter(statusWritten[k + 4], "o", "O")
    /\ isLetter(statusWritten[k + 5], "r", "R")
endEventShown ==
  SelectSeq(chatMessages.children, LAMBDA e : "tool-status" \in e.classes)

(* C20: an end-sentinel line is shown as error exactly when the text that *)
(* follows its status= marker starts with "error" in any letter case, and *)
(* as success otherwise.                                                  *)
C20_ErrorIffStatusStartsWithError ==
  sends[1].state = "done" =>
    /\ Len(endEventShown) = 1
    /\ endEventShown[1].summary =
         IF errorFollowsMarker THEN "Tool Finished (Error)"
                               ELSE "Tool Finished (Success)"

C20_Witness ==
  /\ sends[1].state = "done"
  /\ backendReply = <<END, SP, "calc", SP, STATUS, "E", "r", "r", "o", "r">>
  /\ endEventShown[1].summary = "Tool Finished (Error)"


(* C29: the terminal stages of the startup monitor are stable: once       *)
(* backendStartupStage is ready or error it never changes again and no    *)
(* further stage report is sent, also when poll callbacks overlap.        *)
C29_TerminalStageStable ==
  [][monitor.backendStartupStage \in {"ready", "error"}
       => /\ monitor'.backendStartupStage = monitor.backendStartupStage
          /\ monitor'.readyReports = monitor.readyReports
          /\ monitor'.errorReports = monitor.errorReports]_vars

(* C30: a save call that main.js answers with success false leaves the    *)
(* settings of the host as they were before the call: currentBackend is   *)
(* unchanged and the backend was not told a provider other than that one. *)
C30_FailedSaveLeavesHost ==
  [][(saveHandledStep /\ ~settings'.handled.success)
       => /\ host'.currentBackend = host.currentBackend
          /\ host'.told.backend \in {host.told.backend, host.currentBackend}]_vars


(* C28: at any time at most one refresh timer is armed: the intervals     *)
(* created and not cleared are none while serverRefreshInterval is null   *)
(* and otherwise exactly the one it holds; and every step that creates an *)
(* interval leaves it as the only one.                                    *)
C28_AtMostOneTimer ==
  /\ [](/\ Cardinality(timers) <= 1
        /\ timers = IF serverRefreshInterval = null THEN {}
                    ELSE {serverRefreshInterval})
  /\ [][timerCount' # timerCount
          => /\ timerCount' = timerCount + 1
             /\ timers' = {timerCount'}
             /\ serverRefreshInterval' = timerCount']_vars

C28_Witness ==
  /\ timerCount = 2
  /\ timers = {2}
  /\ serverRefreshInterval = 2
  /\ hist.lastOrigin = "add"


(* the refresh timer was armed and has been cleared *)
timerDisabled == serverRefreshInterval = null /\ timerCount > 0

(* the add-server flow awaiting its refresh has added everything it was   *)
(* given: the script, or every entry of the JSON file                     *)
addSucceeded ==
  /\ addFlow.pc = "refresh"
  /\ addFlow.kind \in {"py", "json"}
  /\ addFlow.warnings = 0
  /\ addFlow.outcomes # <<>>
  /\ \A k \in 1..Len(addFlow.outcomes) : addFlow.outcomes[k]
  /\ addFlow.kind = "json" => Len(addFlow.outcomes) = Len(addFlow.entries)

addRefreshStep == hist'.lastId # hist.lastId /\ hist'.lastOrigin = "add"

C27_StatusAheadOfReply ==
  (/\ sends[1].state = "done"
   /\ statusMessages(backendReply) # <<>>
   /\ finalReply(backendReply) # <<>>) =>
    /\ statusShown = statusMessages(backendReply)
    /\ \A k, j \in 1..Len(chatMessages.children) :
          (/\ chatMessages.children[k].id > sends[1].loadingMessageDiv
           /\ chatMessages.children[j].id = sends[1].loadingMessageDiv) => k < j


(* C24: a failed chat call is caught at its call site and reported as     *)
(* exactly one inline system message for that call: the handler of the    *)
(* send does not end in an unhandled rejection, and the conversation      *)
(* holds the error text of the send exactly once, in a system message.    *)
C24_FailureCaughtAndReportedOnce ==
  \A i \in 1..Len(sends) :
    sends[i].outcome = "error" =>
      /\ sends[i].state # "rejected"
      /\ LET reports == SelectSeq(chatMessages.children,
                                  LAMBDA e : e.text = errorText(i))
         IN  /\ Len(reports) = 1
             /\ "system" \in reports[1].classes


(* C23: loading the current settings never returns the API key to the     *)
(* renderer: whatever key was saved before, the apiKey field returned by  *)
(* get-current-settings is the empty string, on the success path and on   *)
(* the error path, and the key input of the panel is not filled by it.    *)
C23_KeyNeverReturned ==
  /\ [](settings.loaded.apiKey = <<>>)
  /\ [][settings'.loads < settings.loads
          => (settings'.loaded.apiKey = <<>> /\ settings'.apiKey = settings.apiKey)]_vars

C23_Witness ==
  /\ settings.loaded.path = "error"
  /\ settings.loaded.afterKey
  /\ settings.loaded.apiKey = <<>>
  /\ host.told.apiKey = <<"k">>
  /\ settings.loads = 0


(* C22 as stated: a selection of a file whose MIME type is not image/* or *)
(* whose size exceeds 10MB is rejected with one system message and        *)
(* nothing else: the selected-image slot, the readers, the preview and    *)
(* the requests in flight stay as they were. A file of type image/* of up *)
(* to exactly 10MB is accepted without a message.                         *)
C22_InvalidSelectionRejected ==
  [][selections' = selections + 1 =>
       LET file == chatHist'.file
           notImage == file.type = <<>> \/ Head(file.type) # "image/"
           tooLarge == file.size > 10485760
           before == Len(chatMessages.children)
       IN  /\ (notImage \/ tooLarge) =>
                /\ Len(chatMessages'.children) = before + 1
                /\ SubSeq(chatMessages'.children, 1, before) = chatMessages.children
                /\ chatMessages'.children[before + 1].classes = {"message", "system"}
                /\ chatMessages'.children[before + 1].text =
                      IF notImage THEN INVALIDIMAGE ELSE TOOLARGE
                /\ UNCHANGED <<selectedImageData, readers, imagePreview, sends,
                               refreshes>>
           /\ ~(notImage \/ tooLarge) =>
                /\ chatMessages' = chatMessages
                /\ readers' # readers]_vars


(* C22 amended: a selection of a file whose MIME type is not image/* or   *)
(* whose size exceeds 10MB leaves the selected-image slot, the readers,   *)
(* the preview and the requests in flight as they were; it is reported    *)
(* with one system message, except that a dropped file whose type is not  *)
(* image/* is ignored without a message. A file of type image/* of up to  *)
(* exactly 10MB is accepted without a message.                            *)
C22_InvalidSelectionRejectedOrIgnored ==
  [][selections' = selections + 1 =>
       LET file == chatHist'.file
           notImage == file.type = <<>> \/ Head(file.type) # "image/"
           tooLarge == file.size > 10485760
           before == Len(chatMessages.children)
       IN  /\ (notImage \/ tooLarge) =>
                /\ UNCHANGED <<selectedImageData, readers, imagePreview, sends,
                               refreshes>>
                /\ IF chatHist'.ignored
                     THEN notImage /\ chatMessages' = chatMessages
                     ELSE /\ Len(chatMessages'.children) = before + 1
                          /\ SubSeq(chatMessages'.children, 1, before)
                               = chatMessages.children
                          /\ chatMessages'.children[before + 1].classes
                               = {"message", "system"}
                          /\ chatMessages'.children[before + 1].text =
                               IF notImage THEN INVALIDIMAGE ELSE TOOLARGE
           /\ ~(notImage \/ tooLarge) =>
                /\ ~chatHist'.ignored
                /\ chatMessages' = chatMessages
                /\ readers' # readers]_vars

C22_Witness ==
  /\ selections = 2
  /\ chatHist.file = [type |-> <<"image/", "png">>, size |-> 10485760]
  /\ ~chatHist.ignored
  /\ Cardinality(readers) = 1
  /\ selectedImageData = null
  /\ Len(chatMessages.children) = 1
  /\ chatMessages.children[1].text = TOOLARGE


(* C26: the before-quit handler prevents the quit at most once: its first *)
(* invocation sets isQuitting and sends one disconnect-all-servers        *)
(* request; however that request ends, the handler then attempts to       *)
(* terminate pythonProcess if it is set and calls app.quit() once; every  *)
(* later invocation lets the quit proceed; and once a quit was requested  *)
(* the application eventually quits.                                      *)
C26_QuitPreventedOnce ==
  /\ [](/\ app.prevented <= 1
        /\ app.requests = app.prevented
        /\ app.isQuitting = (app.prevented = 1)
        /\ app.quits <= 1
        /\ app.pc \in {"waiting", "scheduled", "done"} =>
              /\ app.outcome \in {"ok", "notok", "threw", "timeout"}
              /\ app.kills = IF app.hadProcess THEN 1 ELSE 0
        /\ app.pc = "done" => (app.quits = 1 /\ app.quitted)
        /\ app.quitted => app.invocations >= 2)
  /\ [][(app.isQuitting /\ app'.invocations > app.invocations)
          => (app'.quitted /\ app'.prevented = app.prevented)]_vars
  /\ (app.invocations > 0) ~> app.quitted

C26_Witness ==
  /\ app.quitted
  /\ app.pc = "done"
  /\ app.invocations = 2
  /\ app.prevented = 1
  /\ app.requests = 1
  /\ app.outcome = "timeout"
  /\ app.kills = 1
  /\ app.quits = 1


(* the first whitespace-delimited token of a detail, or the fallback name *)
RECURSIVE firstToken(_)
firstToken(detail) ==
  IF detail = <<>> \/ Head(detail) \in {" ", "\t", "\n"} THEN <<>>
  ELSE <<Head(detail)>> \o firstToken(Tail(detail))

RECURSIVE skipWhitespace(_)
skipWhitespace(detail) ==
  IF detail # <<>> /\ Head(detail) \in {" ", "\t", "\n"}
    THEN skipWhitespace(Tail(detail)) ELSE detail

(* C21: for every sentinel line the tool name shown is the first          *)
(* whitespace-delimited token after the sentinel, any whitespace          *)
(* character ending the token, and the fallback name when no text follows *)
(* the sentinel; the status message is shown without an error.            *)
C21_ToolNameIsFirstToken ==
  (sends[1].state = "done" /\ backendReply # <<>>) =>
    LET shown == SelectSeq(chatMessages.children,
                           LAMBDA e : e.id > sends[1].loadingMessageDiv)
        token == firstToken(skipWhitespace(Tail(backendReply)))
    IN  /\ Len(shown) = 1
        /\ shown[1].tool = IF token = <<>> THEN <<"Unknown Tool">> ELSE token

====
